---- MODULE Spec2Model ----
(***************************************************************************)
(* A model of the borehole pipeline of ai-soil: the normalisation of the   *)
(* extraction result (parseBoreholeLog), the reconciliation of fragments   *)
(* (mergeBoreholes) and the orchestration around them (handleFilesSelect,  *)
(* handleValidationConfirm, handleReset of the App component).             *)
(*                                                                         *)
(* A borehole name is a tuple of one-character strings, so that trimming   *)
(* and the numeric-aware comparison are computed character by character.   *)
(* An absent, null or empty string field of the extraction result is "",   *)
(* an absent name is << >>: JavaScript's `x || d` treats them alike.       *)
(***************************************************************************)
EXTENDS Integers, Sequences, FiniteSets, Bags, TLC

\* Bounds of the model.
MaxSources == 2
MaxPerPage == 2
MaxFragments == 3

(***************************************************************************)
(* Strings: trimming and String.prototype.localeCompare with               *)
(* {numeric: true, sensitivity: 'base'}.                                   *)
(***************************************************************************)
Digits == {"0", "1", "2"}

IsDigit(c) == c \in Digits

DigitVal(c) == CASE c = "0" -> 0 [] c = "1" -> 1 [] c = "2" -> 2

IsSpace(c) == c = " "

RECURSIVE TrimStart(_)
TrimStart(s) ==
  IF s = << >> THEN s
  ELSE IF IsSpace(Head(s)) THEN TrimStart(Tail(s)) ELSE s

RECURSIVE TrimEnd(_)
TrimEnd(s) ==
  IF s = << >> THEN s
  ELSE IF IsSpace(s[Len(s)]) THEN TrimEnd(SubSeq(s, 1, Len(s) - 1)) ELSE s

\* String.prototype.trim
Trim(s) == TrimEnd(TrimStart(s))

\* The longest prefix of s made of decimal digits.
RECURSIVE DigitRun(_)
DigitRun(s) ==
  IF s = << >> \/ ~IsDigit(Head(s)) THEN << >>
  ELSE <<Head(s)>> \o DigitRun(Tail(s))

\* The value of a run of digits; leading zeros do not count.
RECURSIVE NumVal(_)
NumVal(run) ==
  IF run = << >> THEN 0
  ELSE 10 * NumVal(SubSeq(run, 1, Len(run) - 1)) + DigitVal(run[Len(run)])

\* Primary collation weight of a character that is not part of a number:
\* white space, then punctuation, then digits, then letters; at sensitivity
\* 'base' the two cases of a letter have the same weight.
Weight(c) ==
  CASE c = " " -> 1
    [] c = "?" -> 2
    [] IsDigit(c) -> 3
    [] c \in {"A", "a"} -> 10
    [] c \in {"B", "b"} -> 11

Sign(x, y) == IF x < y THEN -1 ELSE IF x > y THEN 1 ELSE 0

\* The comparison is not numeric: digits compare as characters.
RECURSIVE PlainCompare(_, _)
PlainCompare(a, b) ==
  IF a = << >> /\ b = << >> THEN 0
  ELSE IF a = << >> THEN -1
  ELSE IF b = << >> THEN 1
  ELSE LET wa == IF IsDigit(Head(a)) THEN 3 + DigitVal(Head(a)) ELSE Weight(Head(a))
           wb == IF IsDigit(Head(b)) THEN 3 + DigitVal(Head(b)) ELSE Weight(Head(b))
       IN IF wa # wb THEN Sign(wa, wb) ELSE PlainCompare(Tail(a), Tail(b))

\* a.localeCompare(b, undefined, {numeric: true, sensitivity: 'base'}):
\* negative, zero or positive.
RECURSIVE localeCompare(_, _)
localeCompare(a, b) ==
  IF a = << >> /\ b = << >> THEN 0
  ELSE IF a = << >> THEN -1
  ELSE IF b = << >> THEN 1
  ELSE IF IsDigit(Head(a)) /\ IsDigit(Head(b))
    THEN LET ra == DigitRun(a)
             rb == DigitRun(b)
         IN IF NumVal(ra) # NumVal(rb) THEN Sign(NumVal(ra), NumVal(rb))
            ELSE localeCompare(SubSeq(a, Len(ra) + 1, Len(a)),
                               SubSeq(b, Len(rb) + 1, Len(b)))
    ELSE IF Weight(Head(a)) # Weight(Head(b))
      THEN Sign(Weight(Head(a)), Weight(Head(b)))
      ELSE localeCompare(Tail(a), Tail(b))

\* A property key that is a canonical array index ("0", "7", "10", not "02"):
\* such keys are enumerated first, in ascending numeric order.
IsIndexKey(k) ==
  /\ k # << >>
  /\ \A i \in 1..Len(k) : IsDigit(k[i])
  /\ (Len(k) > 1 => k[1] # "0")

Range(s) == {s[i] : i \in 1..Len(s)}

\* The elements of s that satisfy Keep, in their order.
RECURSIVE SelectIdx(_, _)
SelectIdx(s, keep) ==
  IF s = << >> THEN << >>
  ELSE LET n == Len(s)
           front == SelectIdx(SubSeq(s, 1, n - 1), keep)
       IN IF n \in keep THEN Append(front, s[n]) ELSE front

(***************************************************************************)
(* The extraction oracle's results (the parsed JSON of one response).      *)
(***************************************************************************)
RawHeader(pn, bn, d, e, c, w) ==
  [projectName |-> pn, boreholeName |-> bn, date |-> d, elevation |-> e,
   coordinates |-> c, waterTable |-> w]

RawLayer(f, t, desc) == [depthFrom |-> f, depthTo |-> t, description |-> desc]

RawSpt(d, v) == [depth |-> d, value |-> v]

RawBoreholes ==
  { [header |-> RawHeader("", <<" ", "A">>, "", "", "", ""),
     layers |-> <<RawLayer(1, 2, "y"), RawLayer(0, 1, "y")>>,
     spt |-> <<RawSpt(2, 7), RawSpt(1, 60)>>],
    [header |-> RawHeader("P2", <<"A", " ">>, "d2", "80", "c2", "w2"),
     layers |-> << >>, spt |-> << >>],
    [header |-> RawHeader("", <<"A">>, "", "0.00", "c4", "-"),
     layers |-> <<RawLayer(0, 1, "x"), RawLayer(0, 1, "z")>>,
     spt |-> <<RawSpt(1, 5), RawSpt(1, 9)>>],
    [header |-> RawHeader("P1", <<"a">>, "d1", "10", "", ""),
     layers |-> <<RawLayer(0, 2, "x")>>, spt |-> << >>],
    [header |-> RawHeader("P2", <<" ">>, "d2", "80", "c2", "w2"),
     layers |-> <<RawLayer(0, 1, "w")>>, spt |-> <<RawSpt(1, 9)>>],
    [header |-> RawHeader("P1", << >>, "d1", "10", "c1", "w1"),
     layers |-> <<RawLayer(0, 1, "x")>>, spt |-> << >>],
    [header |-> RawHeader("P1", <<"2">>, "d1", "10", "c1", "w1"),
     layers |-> <<RawLayer(0, 1, "x")>>, spt |-> << >>],
    [header |-> RawHeader("P1", <<"1", "0">>, "d1", "10", "c1", "w1"),
     layers |-> <<RawLayer(0, 1, "x")>>, spt |-> << >>],
    [header |-> RawHeader("P1", <<"0", "2">>, "d1", "10", "c1", "w1"),
     layers |-> << >>, spt |-> <<RawSpt(1, 5)>>] }

\* The arrays one response can hold: up to MaxPerPage boreholes.
RawArrays == UNION {[1..n -> RawBoreholes] : n \in 0..MaxPerPage}

(***************************************************************************)
(* parseBoreholeLog: the normalisation of one response.                    *)
(***************************************************************************)
Or(x, d) == IF x = "" THEN d ELSE x

DefaultName(bn) == IF bn = << >> THEN <<"?">> ELSE bn

NormaliseHeader(h) ==
  [projectName |-> Or(h.projectName, ""),
   boreholeName |-> DefaultName(h.boreholeName),
   date |-> Or(h.date, ""),
   elevation |-> Or(h.elevation, "0.00"),
   coordinates |-> Or(h.coordinates, ""),
   client |-> "",
   waterTable |-> Or(h.waterTable, "-")]

NormaliseLayer(l, internalId, index) ==
  [id |-> <<internalId, "layer", index>>, depthFrom |-> l.depthFrom,
   depthTo |-> l.depthTo, description |-> l.description]

NormaliseSpt(s, internalId, index) ==
  [id |-> <<internalId, "spt", index>>, depth |-> s.depth, value |-> s.value,
   notes |-> ""]

Normalise(rawData, internalId) ==
  [internalId |-> internalId,
   header |-> NormaliseHeader(rawData.header),
   layers |-> [k \in 1..Len(rawData.layers) |->
                 NormaliseLayer(rawData.layers[k], internalId, k - 1)],
   spt |-> [k \in 1..Len(rawData.spt) |->
                 NormaliseSpt(rawData.spt[k], internalId, k - 1)]]

\* rawDataArray.map(...): generateId() gives every fragment a fresh id, here
\* the next unused numbers after `used`.
NormaliseArray(arr, used) ==
  [k \in 1..Len(arr) |-> Normalise(arr[k], used + k)]

(***************************************************************************)
(* mergeBoreholes.  mergedMap is the sequence of its entries in insertion  *)
(* order; `first` is the position in rawList of the fragment the entry was *)
(* started from ({...item} copies the fragment but shares its header).     *)
(***************************************************************************)
\* The name is used as the key as it is, untrimmed.
UntrimmedKey(item) == item.header.boreholeName

MergeKey(item) == Trim(item.header.boreholeName)

\* No name is dropped.
NeverUnnamed(name) == FALSE

IsUnnamed(name) == name = << >>

\* [...].sort((a,b) => a.depthFrom - b.depthFrom): stable, ascending.
RECURSIVE SortLayers(_)
SortLayers(s) ==
  IF Len(s) <= 1 THEN s
  ELSE LET init == SortLayers(SubSeq(s, 1, Len(s) - 1))
           x == s[Len(s)]
           k == Cardinality({i \in 1..Len(init) : init[i].depthFrom <= x.depthFrom})
       IN SubSeq(init, 1, k) \o <<x>> \o SubSeq(init, k + 1, Len(init))

\* [...].sort((a,b) => a.depth - b.depth): stable, ascending.
RECURSIVE SortSpt(_)
SortSpt(s) ==
  IF Len(s) <= 1 THEN s
  ELSE LET init == SortSpt(SubSeq(s, 1, Len(s) - 1))
           x == s[Len(s)]
           k == Cardinality({i \in 1..Len(init) : init[i].depth <= x.depth})
       IN SubSeq(init, 1, k) \o <<x>> \o SubSeq(init, k + 1, Len(init))

\* `${l.depthFrom}-${l.depthTo}`: one string per pair of numbers.
LayerKey(l) == <<l.depthFrom, l.depthTo>>

\* The last layer of each key is kept instead of the first.
DedupLayersLast(ls) ==
  SelectIdx(ls, {i \in 1..Len(ls) :
                   \A j \in (i + 1)..Len(ls) : LayerKey(ls[j]) # LayerKey(ls[i])})

\* filter with seenDepths: the first layer of each key is kept.
DedupLayers(ls) ==
  SelectIdx(ls, {i \in 1..Len(ls) :
                   \A j \in 1..(i - 1) : LayerKey(ls[j]) # LayerKey(ls[i])})

\* filter with seenSptDepths: the first record of each depth is kept.
DedupSpt(ss) ==
  SelectIdx(ss, {i \in 1..Len(ss) :
                   \A j \in 1..(i - 1) : ss[j].depth # ss[i].depth})

\* The incoming layers are taken only when the record has none.
MergeLayersIfNone(existing, incoming) ==
  IF Len(existing) = 0 THEN incoming ELSE existing

MergeLayers(existing, incoming) ==
  IF Len(incoming) > 0 THEN DedupLayers(SortLayers(existing \o incoming))
  ELSE existing

MergeSpt(existing, incoming) ==
  IF Len(incoming) > 0 THEN DedupSpt(SortSpt(existing \o incoming))
  ELSE existing

MergeHeader(existing, incoming) ==
  [existing EXCEPT
     !.projectName = IF @ = "" THEN incoming.projectName ELSE @,
     !.elevation = IF @ = "" \/ @ = "0.00" THEN incoming.elevation ELSE @,
     !.coordinates = IF @ = "" THEN incoming.coordinates ELSE @,
     !.waterTable = IF @ = "-" \/ @ = "" THEN incoming.waterTable ELSE @]

\* The else branch: item is merged into the record of its name.
MergeInto(existing, item) ==
  [existing EXCEPT
     !.layers = MergeLayers(@, item.layers),
     !.spt = MergeSpt(@, item.spt),
     !.header = MergeHeader(@, item.header)]

\* The record is started with the trimmed name in its header.
NewRecordTrimmed(item) == [item EXCEPT !.header.boreholeName = Trim(@)]

\* { ...item }: the record a new name starts with.
NewRecord(item) == item

HasKey(map, name) == \E e \in 1..Len(map) : map[e].key = name

\* One call of the forEach callback, for rawList[idx] = item.
MergeItem(map, item, idx) ==
  LET name == MergeKey(item)
  IN IF IsUnnamed(name) THEN map
     ELSE IF ~HasKey(map, name)
       THEN Append(map, [key |-> name, first |-> idx, value |-> NewRecord(item)])
       ELSE [e \in 1..Len(map) |->
               IF map[e].key = name
               THEN [map[e] EXCEPT !.value = MergeInto(@, item)]
               ELSE map[e]]

\* mergedMap after the first n fragments of rawList.
RECURSIVE MergedMap(_, _)
MergedMap(rawList, n) ==
  IF n = 0 THEN << >>
  ELSE MergeItem(MergedMap(rawList, n - 1), rawList[n], n)

\* Object.values(mergedMap): the entries whose key is an array index first,
\* in ascending numeric order, then the others in insertion order.
ObjectValues(map) ==
  LET idx == {e \in 1..Len(map) : IsIndexKey(map[e].key)}
      rank(e) == Cardinality({d \in idx : NumVal(map[d].key) < NumVal(map[e].key)})
      indexed == [p \in 1..Cardinality(idx) |->
                    map[CHOOSE e \in idx : rank(e) = p - 1].value]
      others == SelectIdx(map, (1..Len(map)) \ idx)
  IN indexed \o [p \in 1..Len(others) |-> others[p].value]

\* .sort((a, b) => a.header.boreholeName.localeCompare(b.header.boreholeName,
\* undefined, {numeric: true, sensitivity: 'base'})): stable.
RECURSIVE SortBoreholes(_)
SortBoreholes(list) ==
  IF Len(list) <= 1 THEN list
  ELSE LET init == SortBoreholes(SubSeq(list, 1, Len(list) - 1))
           x == list[Len(list)]
           k == Cardinality({i \in 1..Len(init) :
                  localeCompare(init[i].header.boreholeName,
                                x.header.boreholeName) <= 0})
       IN SubSeq(init, 1, k) \o <<x>> \o SubSeq(init, k + 1, Len(init))

mergeBoreholes(rawList) ==
  SortBoreholes(ObjectValues(MergedMap(rawList, Len(rawList))))

\* rawList as the call leaves it: the header object of a record is the header
\* object of the fragment the record was started from, so the back-fill
\* writes into that fragment.
AfterMerge(rawList) ==
  LET map == MergedMap(rawList, Len(rawList))
  IN [i \in 1..Len(rawList) |->
        IF \E e \in 1..Len(map) : map[e].first = i
        THEN [rawList[i] EXCEPT !.header =
                map[CHOOSE e \in 1..Len(map) : map[e].first = i].value.header]
        ELSE rawList[i]]

(***************************************************************************)
(* The App component: its state and its handlers.                          *)
(***************************************************************************)
VARIABLES
  stage,              \* 'upload' | 'validation' | 'result'
  loading,            \* the loading flag
  extractedDataList,  \* Null or Some(list)
  pc,                 \* "idle"; "loop" while handleFilesSelect awaits a page;
                      \* "settled" when the awaited call has returned or thrown
  nSources,           \* sources.length of the run
  i,                  \* the loop index of the run
  allExtracted,       \* the fragments collected by the run
  errorCount,         \* the pages of the run that failed
  rawList,            \* the argument of the run's call of mergeBoreholes
  mergedResults,      \* what that call returned
  merged,             \* the run has called mergeBoreholes
  alertShown,         \* the alert of the run: "none", "noData", "partial"
  arrayResult         \* what the awaited parseBoreholeLog(sources[i]) gave

\* nSources, i, allExtracted and errorCount are the locals of the run of
\* handleFilesSelect.  rawList, mergedResults, merged and alertShown record
\* what the last run did; the record is kept until the user leaves the
\* screen the run ended on or starts another run.  arrayResult is the local
\* of one iteration of the loop.

(***************************************************************************)
(* ValidationTables and SoilProfileChart keep state of their own.  Each is  *)
(* studied from the props it is mounted with, in a specification of its    *)
(* own (SpecValidation, SpecChart), and stays unmounted in Spec.           *)
(***************************************************************************)
VARIABLES
  dataList,           \* ValidationTables: the list being edited
  activeTab,          \* ValidationTables: index of the active borehole, from 0
  prevDataList,       \* dataList before the last edit
  lastEdit,           \* the last header edit: NoEdit, or its field, value and
                      \* tab, and the number n of header edits made so far
  chartData,          \* SoilProfileChart: the data prop (the caller's objects)
  chartInput,         \* the data prop as it was when the caller passed it
  rendered,           \* "no"; "svg" when the component has returned its
                      \* canvas; "TypeError" when it has thrown
  retryPc,            \* callWithRetry: "idle"; "call" while fn() is awaited;
                      \* "wait" while the backoff timer runs; "returned";
                      \* "thrown"
  retryI,             \* callWithRetry: the loop index
  attempts,           \* how each fn() of the call has settled, in order
  retryResult,        \* what the call returned or threw
  runs                \* the calls of processFiles and handleFilesSelect in
                      \* progress when runs may overlap: a bag of their locals

appVars == <<stage, loading, extractedDataList, pc, nSources, i, allExtracted,
             errorCount, rawList, mergedResults, merged, alertShown,
             arrayResult>>

validationVars == <<dataList, activeTab, prevDataList, lastEdit>>

chartVars == <<chartData, chartInput, rendered>>

retryVars == <<retryPc, retryI, attempts, retryResult>>

vars == <<appVars, validationVars, chartVars, retryVars, runs>>

Null == [null |-> TRUE]

NoResult == [settled |-> FALSE]

Returned(array) == [settled |-> TRUE, ok |-> TRUE, value |-> array]

Thrown == [settled |-> TRUE, ok |-> FALSE]

NoEdit == [field |-> "none", n |-> 0]

\* ValidationTables is not mounted.
ValidationIdle ==
  /\ dataList = << >>
  /\ activeTab = 0
  /\ prevDataList = << >>
  /\ lastEdit = NoEdit

\* SoilProfileChart is not mounted.
ChartIdle ==
  /\ chartData = << >>
  /\ chartInput = << >>
  /\ rendered = "no"

Some(list) == [null |-> FALSE, list |-> list]

AppInit ==
  /\ stage = "upload"
  /\ loading = FALSE
  /\ extractedDataList = Null
  /\ pc = "idle"
  /\ nSources = 0
  /\ i = 0
  /\ allExtracted = << >>
  /\ errorCount = 0
  /\ rawList = << >>
  /\ mergedResults = << >>
  /\ merged = FALSE
  /\ alertShown = "none"
  /\ arrayResult = NoResult

\* No call of callWithRetry is studied.
RetryIdle ==
  /\ retryPc = "idle"
  /\ retryI = 0
  /\ attempts = << >>
  /\ retryResult = NoResult

\* No overlapping runs are studied.
RunsIdle == runs = EmptyBag

Init == AppInit /\ ValidationIdle /\ ChartIdle /\ RetryIdle /\ RunsIdle

\* The record of the last run is dropped.
ForgetRun ==
  /\ allExtracted' = << >>
  /\ rawList' = << >>
  /\ mergedResults' = << >>
  /\ merged' = FALSE
  /\ alertShown' = "none"

\* FileUpload calls onFilesSelect with at least one source; the run starts.
\* Runs are taken one at a time here: a run starts when none is in its loop.
\* The runs that FileUpload lets overlap are those of SpecRuns.
StartRun ==
  /\ stage = "upload"
  /\ pc = "idle"
  /\ \E n \in 1..MaxSources : nSources' = n
  /\ loading' = TRUE
  /\ pc' = "loop"
  /\ i' = 0
  /\ errorCount' = 0
  /\ ForgetRun
  /\ UNCHANGED <<stage, extractedDataList, arrayResult, validationVars, chartVars, retryVars, runs>>

\* What follows the loop, with the locals as the loop left them.
AfterLoop(all, errs) ==
  /\ IF Len(all) = 0
       THEN /\ alertShown' = "noData"
            /\ UNCHANGED <<stage, extractedDataList, rawList, mergedResults, merged>>
            /\ allExtracted' = all
       ELSE /\ rawList' = all
            /\ mergedResults' = mergeBoreholes(all)
            /\ merged' = TRUE
            /\ allExtracted' = AfterMerge(all)
            /\ extractedDataList' = Some(mergedResults')
            /\ stage' = "validation"
            /\ alertShown' = IF errs > 0 THEN "partial" ELSE "none"
  /\ loading' = FALSE
  /\ pc' = "idle"
  /\ i' = 0
  /\ errorCount' = 0
  /\ nSources' = 0

\* One iteration of the loop ends with the locals all and errs.
EndIteration(all, errs) ==
  IF i + 1 < nSources
    THEN /\ i' = i + 1
         /\ allExtracted' = all
         /\ errorCount' = errs
         /\ pc' = "loop"
         /\ UNCHANGED <<stage, loading, extractedDataList, nSources, rawList,
                        mergedResults, merged, alertShown>>
    ELSE AfterLoop(all, errs)

\* The results of a page come before those collected so far.
CollectInFront(all, result) == result \o all

\* allExtracted = [...allExtracted, ...arrayResult]
Collect(all, result) == all \o result

\* The awaited parseBoreholeLog(sources[i]) returns the normalised array.
ParsePageOk ==
  /\ pc = "loop"
  /\ \E arr \in RawArrays :
       /\ Len(allExtracted) + Len(arr) <= MaxFragments
       /\ arrayResult' = Returned(NormaliseArray(arr, Len(allExtracted)))
  /\ pc' = "settled"
  /\ UNCHANGED <<stage, loading, extractedDataList, nSources, i, allExtracted,
                 errorCount, rawList, mergedResults, merged, alertShown,
                 validationVars, chartVars, retryVars, runs>>

\* The awaited parseBoreholeLog(sources[i]) throws.
ParsePageFail ==
  /\ pc = "loop"
  /\ arrayResult' = Thrown
  /\ pc' = "settled"
  /\ UNCHANGED <<stage, loading, extractedDataList, nSources, i, allExtracted,
                 errorCount, rawList, mergedResults, merged, alertShown,
                 validationVars, chartVars, retryVars, runs>>

\* The rest of the iteration: the result is collected, or the error counted,
\* and the loop goes on to the next source or ends.
Resume ==
  /\ pc = "settled"
  /\ IF arrayResult.ok
       THEN EndIteration(Collect(allExtracted, arrayResult.value), errorCount)
       ELSE EndIteration(allExtracted, errorCount + 1)
  /\ arrayResult' = NoResult
  /\ UNCHANGED <<validationVars, chartVars, retryVars, runs>>

\* The confirm button of ValidationTables, which renders nothing when the
\* list has no active borehole.
ValidationConfirm ==
  /\ stage = "validation"
  /\ ~extractedDataList.null
  /\ Len(extractedDataList.list) > 0
  /\ extractedDataList' = Some(extractedDataList.list)
  /\ stage' = "result"
  /\ ForgetRun
  /\ UNCHANGED <<loading, pc, nSources, i, errorCount, arrayResult,
                 validationVars, chartVars, retryVars, runs>>

\* handleReset, confirmed by the user.
Reset ==
  /\ stage # "upload"
  /\ stage' = "upload"
  /\ extractedDataList' = Null
  /\ ForgetRun
  /\ UNCHANGED <<loading, pc, nSources, i, errorCount, arrayResult,
                 validationVars, chartVars, retryVars, runs>>

Next ==
  \/ StartRun
  \/ ParsePageOk
  \/ ParsePageFail
  \/ Resume
  \/ ValidationConfirm
  \/ Reset

Spec == Init /\ [][Next]_vars

(***************************************************************************)
(* ValidationTables: the list under edit, the active tab, the header       *)
(* handler.                                                                *)
(***************************************************************************)
MaxEdits == 1

\* The lists the component is mounted with: what one run over one page
\* hands to setExtractedDataList.
InitialData == {mergeBoreholes(NormaliseArray(arr, 0)) : arr \in RawArrays}

\* keyof HeaderData
HeaderFields == {"projectName", "boreholeName", "date", "elevation",
                 "coordinates", "client", "waterTable"}

\* What is typed into a header input.
TypedValue(field) == IF field = "boreholeName" THEN <<"Z">> ELSE "X"

InitValidation ==
  /\ \E list \in InitialData :
       /\ extractedDataList = Some(list)
       /\ dataList = list
       /\ prevDataList = list
  /\ stage = "validation"
  /\ activeTab = 0
  /\ lastEdit = NoEdit
  /\ loading = FALSE
  /\ pc = "idle"
  /\ nSources = 0
  /\ i = 0
  /\ allExtracted = << >>
  /\ errorCount = 0
  /\ rawList = << >>
  /\ mergedResults = << >>
  /\ merged = FALSE
  /\ alertShown = "none"
  /\ arrayResult = NoResult
  /\ ChartIdle
  /\ RetryIdle
  /\ RunsIdle

\* A tab button: setActiveTab(idx).
SetActiveTab ==
  /\ \E idx \in 0..(Len(dataList) - 1) :
       /\ idx # activeTab
       /\ activeTab' = idx
  /\ UNCHANGED <<dataList, prevDataList, lastEdit, appVars, chartVars, retryVars, runs>>

\* No field is written to every borehole.
NeverShared(field) == FALSE

\* field === 'projectName' || field === 'client'
IsShared(field) == field \in {"projectName", "client"}

\* handleHeaderChange(field, value), the new list.
handleHeaderChange(list, tab, field, value) ==
  LET currentData == list[tab + 1]
      newHeader == [currentData.header EXCEPT ![field] = value]
  IN IF IsShared(field)
       THEN [k \in 1..Len(list) |->
               [list[k] EXCEPT !.header = [@ EXCEPT ![field] = value]]]
       ELSE [list EXCEPT ![tab + 1] = [currentData EXCEPT !.header = newHeader]]

\* A header input changes; the component renders its inputs only when the
\* active borehole exists.  The handler takes any field of the header.
HeaderChange ==
  /\ activeTab < Len(dataList)
  /\ lastEdit.n < MaxEdits
  /\ \E field \in HeaderFields :
       /\ dataList' = handleHeaderChange(dataList, activeTab, field,
                                         TypedValue(field))
       /\ lastEdit' = [field |-> field, value |-> TypedValue(field),
                       tab |-> activeTab, n |-> lastEdit.n + 1]
  /\ prevDataList' = dataList
  /\ UNCHANGED <<activeTab, appVars, chartVars, retryVars, runs>>

NextValidation ==
  \/ SetActiveTab
  \/ HeaderChange

SpecValidation == InitValidation /\ [][NextValidation]_vars

(***************************************************************************)
(* SoilProfileChart.  Elevations, and what is computed from them, are      *)
(* counted in tenths of a metre, so that an elevation text with one        *)
(* decimal has an exact value; depths are the whole metres of the records. *)
(* A pixel row is a whole number: 70 pixels a metre is 7 a tenth.          *)
(***************************************************************************)
MaxBoreholes == 2

COLUMN_WIDTH == 420

COLUMN_GAP == 50

MARGIN_TOP == 100

MARGIN_BOTTOM == 220

MARGIN_SIDES == 80

PIXELS_PER_METER == 70

Metres(n) == 10 * n

PixelsPerTenth == PIXELS_PER_METER \div 10

\* Math.ceil and Math.floor, of a number of tenths.
Ceil(x) == x + ((0 - x) % 10)

Floor(x) == x - (x % 10)

DecimalDigits == <<"0", "1", "2", "3", "4", "5", "6", "7", "8", "9">>

IsDecimal(c) == \E k \in 1..10 : DecimalDigits[k] = c

DecimalVal(c) == (CHOOSE k \in 1..10 : DecimalDigits[k] = c) - 1

\* The characters of the elevation texts.
Chars(text) ==
  CASE text = "" -> << >>
    [] text = "0.00" -> <<"0", ".", "0", "0">>
    [] text = "10" -> <<"1", "0">>
    [] text = "80" -> <<"8", "0">>
    [] text = "60" -> <<"6", "0">>
    [] text = "60.5" -> <<"6", "0", ".", "5">>
    [] text = "-3.5" -> <<"-", "3", ".", "5">>
    [] text = "+12.5 m" -> <<"+", "1", "2", ".", "5", " ", "m">>
    [] text = "9-10" -> <<"9", "-", "1", "0">>
    [] text = "n/a" -> <<"n", "/", "a">>

\* s.replace(/[^\d.-]/g, '')
RECURSIVE StripElevation(_)
StripElevation(s) ==
  IF s = << >> THEN s
  ELSE IF IsDecimal(Head(s)) \/ Head(s) \in {".", "-"}
         THEN <<Head(s)>> \o StripElevation(Tail(s))
         ELSE StripElevation(Tail(s))

RECURSIVE DecimalRun(_)
DecimalRun(s) ==
  IF s = << >> \/ ~IsDecimal(Head(s)) THEN << >>
  ELSE <<Head(s)>> \o DecimalRun(Tail(s))

RECURSIVE DecimalNum(_)
DecimalNum(run) ==
  IF run = << >> THEN 0
  ELSE 10 * DecimalNum(SubSeq(run, 1, Len(run) - 1)) + DecimalVal(run[Len(run)])

\* parseFloat: the longest prefix that is a decimal literal (a sign, digits,
\* a point, digits; one digit at least), in tenths; nan when there is none.
\* The texts have no digit but 0 after the first decimal.
parseFloat(s) ==
  LET neg == s # << >> /\ Head(s) = "-"
      unsigned == IF neg THEN Tail(s) ELSE s
      whole == DecimalRun(unsigned)
      rest == SubSeq(unsigned, Len(whole) + 1, Len(unsigned))
      frac == IF rest # << >> /\ Head(rest) = "." THEN DecimalRun(Tail(rest))
              ELSE << >>
      tenths == 10 * DecimalNum(whole)
                  + (IF frac = << >> THEN 0 ELSE DecimalVal(Head(frac)))
  IN IF whole = << >> /\ frac = << >> THEN [nan |-> TRUE]
     ELSE [nan |-> FALSE, v |-> IF neg THEN 0 - tenths ELSE tenths]

parseElevation(text) ==
  LET v == parseFloat(StripElevation(Chars(text)))
  IN IF v.nan THEN 0 ELSE v.v

elevations(data) == [k \in 1..Len(data) |-> parseElevation(data[k].header.elevation)]

\* Math.max and Math.min of the numbers of a list that is not empty.
RECURSIVE MathMax(_)
MathMax(xs) ==
  IF Len(xs) = 1 THEN xs[1]
  ELSE LET m == MathMax(Tail(xs)) IN IF Head(xs) > m THEN Head(xs) ELSE m

RECURSIVE MathMin(_)
MathMin(xs) ==
  IF Len(xs) = 1 THEN xs[1]
  ELSE LET m == MathMin(Tail(xs)) IN IF Head(xs) < m THEN Head(xs) ELSE m

\* A spread of 50 is already too wide.
isRelativeModeFrom50(data) ==
  Len(data) < 2 \/ MathMax(elevations(data)) - MathMin(elevations(data)) >= Metres(50)

\* (maxRawElev - minRawElev) > 50 || data.length < 2; of no elevations the
\* maximum is -Infinity and the minimum Infinity, and their difference is
\* -Infinity, which is not above 50.
isRelativeMode(data) ==
  IF data = << >> THEN TRUE
  ELSE \/ MathMax(elevations(data)) - MathMin(elevations(data)) > Metres(50)
       \/ Len(data) < 2

plotElevations(data) ==
  [k \in 1..Len(data) |-> IF isRelativeMode(data) THEN 0 ELSE elevations(data)[k]]

\* The deepest record alone sets the depth plotted.
maxDOfRecords(bh) ==
  MathMax([k \in 1..Len(bh.layers) |-> bh.layers[k].depthTo]
            \o [k \in 1..Len(bh.spt) |-> bh.spt[k].depth] \o <<0>>)

\* Math.max(...layers' depthTo, ...spt depths, 10), in metres.
maxD(bh) ==
  MathMax([k \in 1..Len(bh.layers) |-> bh.layers[k].depthTo]
            \o [k \in 1..Len(bh.spt) |-> bh.spt[k].depth] \o <<10>>)

\* The extents, the ranges and the pixel rows below are those of a list that
\* is not empty; of an empty list they are not finite.
maxAbsElev(data) == Ceil(MathMax(plotElevations(data))) + Metres(1)

minAbsElev(data) ==
  Floor(MathMin([k \in 1..Len(data) |->
                   plotElevations(data)[k] - Metres(maxD(data[k]))])) - Metres(1)

elevRange(data) == maxAbsElev(data) - minAbsElev(data)

CHART_HEIGHT(data) == elevRange(data) * PixelsPerTenth

CANVAS_WIDTH(data) ==
  MARGIN_SIDES * 2 + Len(data) * COLUMN_WIDTH + (Len(data) - 1) * COLUMN_GAP + 100

CANVAS_HEIGHT(data) == CHART_HEIGHT(data) + MARGIN_TOP + MARGIN_BOTTOM

getY(data, abs) == MARGIN_TOP + (maxAbsElev(data) - abs) * PixelsPerTenth

\* The grid: line n, from 0, is drawn at elevation maxAbsElev - n and labelled
\* `-${n}m` in relative mode, with its elevation otherwise.
Grid(data) ==
  [k \in 1..(Ceil(elevRange(data)) \div 10 + 1) |->
     LET n == k - 1
         elev == maxAbsElev(data) - Metres(n)
     IN [y |-> getY(data, elev),
         label |-> IF isRelativeMode(data) THEN <<"-", n, "m">> ELSE <<elev>>]]

\* A rectangle is never thinner than a pixel.
RectHeightAtLeastOne(yTop, yBot) == IF yBot - yTop < 1 THEN 1 ELSE yBot - yTop

\* h = yBot - yTop
RectHeight(yTop, yBot) == yBot - yTop

\* The rectangles of the layers of borehole idx, from 0.
LayerRects(data, idx) ==
  LET bh == data[idx + 1]
      surfElev == plotElevations(data)[idx + 1]
  IN [k \in 1..Len(bh.layers) |->
        LET yTop == getY(data, surfElev - Metres(bh.layers[k].depthFrom))
            yBot == getY(data, surfElev - Metres(bh.layers[k].depthTo))
        IN [id |-> bh.layers[k].id, y |-> yTop, height |-> RectHeight(yTop, yBot)]]

\* The value is plotted as it is.
SptOffsetUnclamped(value) == (value * 100) \div 50

\* (Math.min(p.value, 50) / 50) * 100
SptOffset(value) == ((IF value < 50 THEN value ELSE 50) * 100) \div 50

\* The points of the SPT graph of borehole idx, from 0: bh.spt is sorted where
\* it lies, and the line and the circles are drawn from it.
SptPoints(data, idx) ==
  LET bh == data[idx + 1]
      surfElev == plotElevations(data)[idx + 1]
      startX == MARGIN_SIDES + 50 + idx * (COLUMN_WIDTH + COLUMN_GAP)
      xS == startX + COLUMN_WIDTH - 100
      sorted == SortSpt(bh.spt)
  IN [k \in 1..Len(sorted) |->
        [id |-> sorted[k].id,
         strip |-> xS,
         x |-> xS + SptOffset(sorted[k].value),
         y |-> getY(data, surfElev - Metres(sorted[k].depth))]]

\* The list as bh.spt.sort(...) leaves it.
SortedInPlace(data) ==
  [k \in 1..Len(data) |-> [data[k] EXCEPT !.spt = SortSpt(@)]]

\* The project name of the title block is read where there is a borehole.
ThrowsNever(data) == FALSE

\* data[0].header.projectName: data[0] of an empty list is undefined, and
\* reading header of it is a TypeError.
Throws(data) == Len(data) = 0

(***************************************************************************)
(* The lists SoilProfileChart is called with.                              *)
(***************************************************************************)
ChartLayer(k, from, to) ==
  [id |-> <<"c", "layer", k>>, depthFrom |-> from, depthTo |-> to,
   description |-> "x"]

ChartSpt(k, depth, value) ==
  [id |-> <<"c", "spt", k>>, depth |-> depth, value |-> value, notes |-> ""]

ChartBorehole(name, elevation, layers, spt) ==
  [internalId |-> name,
   header |-> [projectName |-> "P1", boreholeName |-> <<name>>, date |-> "",
               elevation |-> elevation, coordinates |-> "", client |-> "",
               waterTable |-> "-"],
   layers |-> layers, spt |-> spt]

ChartBoreholes ==
  { ChartBorehole("A", "10", <<ChartLayer(0, 0, 2), ChartLayer(1, 2, 5)>>,
                  <<ChartSpt(0, 2, 7), ChartSpt(1, 1, 60)>>),
    ChartBorehole("B", "60",
                  <<ChartLayer(0, 0, 3), ChartLayer(1, 3, 3), ChartLayer(2, 3, 12)>>,
                  <<ChartSpt(0, 1, 50), ChartSpt(1, 4, 49)>>),
    ChartBorehole("C", "60.5", <<ChartLayer(0, 0, 1)>>, << >>),
    ChartBorehole("D", "0.00", << >>, <<ChartSpt(0, 11, 0)>>),
    ChartBorehole("E", "-3.5", <<ChartLayer(0, 0, 4)>>,
                  <<ChartSpt(0, 1, 5), ChartSpt(1, 1, 9)>>),
    ChartBorehole("F", "n/a", << >>, << >>),
    ChartBorehole("G", "+12.5 m", <<ChartLayer(0, 0, 2)>>, <<ChartSpt(0, 3, 100)>>),
    ChartBorehole("H", "9-10", <<ChartLayer(0, 1, 1)>>, <<ChartSpt(0, 12, 25)>>) }

ChartLists == UNION {[1..n -> ChartBoreholes] : n \in 0..MaxBoreholes}

InitChart ==
  /\ AppInit
  /\ ValidationIdle
  /\ RetryIdle
  /\ RunsIdle
  /\ chartData \in ChartLists
  /\ chartInput = chartData
  /\ rendered = "no"

\* React calls SoilProfileChart with the data prop.
RenderChart ==
  /\ rendered # "TypeError"
  /\ chartData' = SortedInPlace(chartData)
  /\ rendered' = IF Throws(chartData) THEN "TypeError" ELSE "svg"
  /\ UNCHANGED <<chartInput, appVars, validationVars, retryVars, runs>>

NextChart == RenderChart

SpecChart == InitChart /\ [][NextChart]_vars

(***************************************************************************)
(* callWithRetry, as parseBoreholeLog calls it: with the default           *)
(* maxRetries.                                                             *)
(***************************************************************************)
maxRetries == 3

\* The errors fn() may throw: an error has a message, or none (a value that
\* is no Error, or undefined).
WithMessage(chars) == [hasMessage |-> TRUE, message |-> chars]

NoMessage == [hasMessage |-> FALSE]

Errors ==
  { WithMessage(<<"E", ":", "4", "2", "9", "!">>),
    WithMessage(<<"R", "E", "S", "O", "U", "R", "C", "E", "_",
                  "E", "X", "H", "A", "U", "S", "T", "E", "D">>),
    WithMessage(<<"n", "o", " ", "q", "u", "o", "t", "a">>),
    WithMessage(<<"Q", "u", "o", "t", "a">>),
    WithMessage(<<"4", "2", " ", "9">>),
    WithMessage(<<"5", "0", "0">>),
    NoMessage }

\* What fn() may return.
Responses == {"r1", "r2"}

\* String.prototype.includes
includes(text, part) ==
  \E k \in 0..(Len(text) - Len(part)) : SubSeq(text, k + 1, k + Len(part)) = part

\* Every error is taken for a quota error.
isAnyError(error) == TRUE

\* error?.message || "", and the three tests on it.
isQuotaError(error) ==
  LET errorMessage == IF error.hasMessage THEN error.message ELSE << >>
  IN \/ includes(errorMessage, <<"4", "2", "9">>)
     \/ includes(errorMessage, <<"R", "E", "S", "O", "U", "R", "C", "E", "_",
                                 "E", "X", "H", "A", "U", "S", "T", "E", "D">>)
     \/ includes(errorMessage, <<"q", "u", "o", "t", "a">>)

\* callWithRetry(fn) is called: the loop starts and awaits the first fn().
InitRetry ==
  /\ AppInit
  /\ ValidationIdle
  /\ ChartIdle
  /\ RunsIdle
  /\ retryPc = "call"
  /\ retryI = 0
  /\ attempts = << >>
  /\ retryResult = NoResult

\* The awaited fn() fulfils: return await fn().
FnReturns ==
  /\ retryPc = "call"
  /\ \E response \in Responses :
       /\ attempts' = Append(attempts, [ok |-> TRUE, value |-> response])
       /\ retryResult' = Returned(response)
  /\ retryPc' = "returned"
  /\ UNCHANGED <<retryI, appVars, validationVars, chartVars, runs>>

\* The awaited fn() rejects: the catch block.
FnThrows ==
  /\ retryPc = "call"
  /\ \E error \in Errors :
       /\ attempts' = Append(attempts, [ok |-> FALSE, error |-> error])
       /\ IF isQuotaError(error) /\ retryI < maxRetries - 1
            THEN /\ retryPc' = "wait"
                 /\ UNCHANGED retryResult
            ELSE /\ retryPc' = "thrown"
                 /\ retryResult' = [settled |-> TRUE, ok |-> FALSE, error |-> error]
  /\ UNCHANGED <<retryI, appVars, validationVars, chartVars, runs>>

\* The backoff timer fires: continue, i++, and fn() is called again.
BackoffEnds ==
  /\ retryPc = "wait"
  /\ retryI + 1 < maxRetries
  /\ retryI' = retryI + 1
  /\ retryPc' = "call"
  /\ UNCHANGED <<attempts, retryResult, appVars, validationVars, chartVars, runs>>

NextRetry ==
  \/ FnReturns
  \/ FnThrows
  \/ BackoffEnds

\* The promise of fn() settles and the timer of the backoff fires.
SpecRetry == InitRetry /\ [][NextRetry]_vars /\ WF_vars(NextRetry)

(***************************************************************************)
(* The App with FileUpload and ValidationTables mounted in it, and with    *)
(* the runs that FileUpload lets start.  Each call of processFiles, and of *)
(* handleFilesSelect after it, has locals of its own; runs holds them.     *)
(* The responses are those of three pages: one whose borehole has a blank  *)
(* name, two whose boreholes are named.                                    *)
(***************************************************************************)
MaxRuns == 2

RunPages ==
  {arr \in RawArrays :
     Len(arr) = 1 /\ arr[1].header.boreholeName \in {<<" ">>, <<"A", " ">>, <<"a">>}}

Converting == [pc |-> "convert"]

Looping(n, k, all, errs) ==
  [pc |-> "loop", nSources |-> n, i |-> k, allExtracted |-> all,
   errorCount |-> errs]

One(run) == SetToBag({run})

\* A call of processFiles that awaits the conversion of its files.
IsConverting == \E run \in BagToSet(runs) : run.pc = "convert"

InitRuns ==
  /\ AppInit
  /\ ValidationIdle
  /\ ChartIdle
  /\ RetryIdle
  /\ runs = EmptyBag

\* handleFileChange: the file input is rendered when neither the App is
\* loading nor FileUpload is preparing files.
SelectFiles ==
  /\ stage = "upload"
  /\ ~loading
  /\ ~IsConverting
  /\ BagCardinality(runs) < MaxRuns
  /\ runs' = runs (+) One(Converting)
  /\ UNCHANGED <<appVars, validationVars, chartVars, retryVars>>

\* handleDrop: the drop zone is rendered whenever FileUpload is.
DropFiles ==
  /\ stage = "upload"
  /\ BagCardinality(runs) < MaxRuns
  /\ runs' = runs (+) One(Converting)
  /\ UNCHANGED <<appVars, validationVars, chartVars, retryVars>>

\* processFiles finds no valid source, or a conversion throws.
FilesInvalid ==
  /\ IsConverting
  /\ runs' = runs (-) One(Converting)
  /\ UNCHANGED <<appVars, validationVars, chartVars, retryVars>>

\* processFiles calls onFilesSelect(validSources): handleFilesSelect sets
\* the loading flag and enters its loop.
FilesReady ==
  /\ IsConverting
  /\ \E n \in 1..MaxSources :
       runs' = (runs (-) One(Converting)) (+) One(Looping(n, 0, << >>, 0))
  /\ loading' = TRUE
  /\ UNCHANGED <<stage, extractedDataList, pc, nSources, i, allExtracted,
                 errorCount, rawList, mergedResults, merged, alertShown,
                 arrayResult, validationVars, chartVars, retryVars>>

\* ValidationTables is mounted with the list, unless it is mounted already:
\* useState takes initialData on the first render only.
MountValidation(list) ==
  IF stage = "validation"
    THEN UNCHANGED validationVars
    ELSE /\ dataList' = list
         /\ activeTab' = 0
         /\ prevDataList' = list
         /\ lastEdit' = NoEdit

UnmountValidation ==
  /\ dataList' = << >>
  /\ activeTab' = 0
  /\ prevDataList' = << >>
  /\ lastEdit' = NoEdit

\* What follows the loop of a run, with its locals.
RunEnds(all) ==
  /\ IF Len(all) = 0
       THEN UNCHANGED <<stage, extractedDataList, validationVars>>
       ELSE /\ extractedDataList' = Some(mergeBoreholes(all))
            /\ stage' = "validation"
            /\ MountValidation(mergeBoreholes(all))
  /\ loading' = FALSE

\* One iteration of the loop of a run: the page is parsed or the parse
\* throws; after the last source the run ends.
PageSettles ==
  \E run \in BagToSet(runs) :
    /\ run.pc = "loop"
    /\ \E ok \in BOOLEAN, arr \in RunPages :
         LET all == IF ok THEN Collect(run.allExtracted,
                                       NormaliseArray(arr, Len(run.allExtracted)))
                    ELSE run.allExtracted
             errs == IF ok THEN run.errorCount ELSE run.errorCount + 1
         IN /\ Len(all) <= MaxFragments
            /\ IF run.i + 1 < run.nSources
                 THEN /\ runs' = (runs (-) One(run))
                                   (+) One(Looping(run.nSources, run.i + 1, all, errs))
                      /\ UNCHANGED <<stage, loading, extractedDataList,
                                     validationVars>>
                 ELSE /\ runs' = runs (-) One(run)
                      /\ RunEnds(all)
    /\ UNCHANGED <<pc, nSources, i, allExtracted, errorCount, rawList,
                   mergedResults, merged, alertShown, arrayResult, chartVars,
                   retryVars>>

\* updateActiveBorehole(updatedData)
updateActiveBorehole(list, tab, updatedData) == [list EXCEPT ![tab + 1] = updatedData]

\* The inputs and the confirm button are rendered whatever the list holds.
AlwaysActive(list, tab) == TRUE

\* const activeData = dataList[activeTab]; if (!activeData) return null;
HasActive(list, tab) == tab < Len(list)

\* The delete button of a layer of the active borehole.
DeleteLayer ==
  /\ activeTab < Len(dataList)
  /\ \E l \in Range(dataList[activeTab + 1].layers) :
       LET activeData == dataList[activeTab + 1]
           kept == {k \in 1..Len(activeData.layers) : activeData.layers[k].id # l.id}
       IN dataList' = updateActiveBorehole(dataList, activeTab,
            [activeData EXCEPT !.layers = SelectIdx(@, kept)])
  /\ UNCHANGED <<activeTab, prevDataList, lastEdit, appVars, chartVars,
                 retryVars, runs>>

\* The confirm button: onConfirm(dataList), that is handleValidationConfirm.
handleValidationConfirm ==
  /\ stage = "validation"
  /\ HasActive(dataList, activeTab)
  /\ extractedDataList' = Some(dataList)
  /\ stage' = "result"
  /\ UnmountValidation
  /\ UNCHANGED <<loading, pc, nSources, i, allExtracted, errorCount, rawList,
                 mergedResults, merged, alertShown, arrayResult, chartVars,
                 retryVars, runs>>

\* The button of the navigation bar, confirmed by the user.
handleReset ==
  /\ stage # "upload"
  /\ stage' = "upload"
  /\ extractedDataList' = Null
  /\ UnmountValidation
  /\ UNCHANGED <<loading, pc, nSources, i, allExtracted, errorCount, rawList,
                 mergedResults, merged, alertShown, arrayResult, chartVars,
                 retryVars, runs>>

NextRuns ==
  \/ SelectFiles
  \/ DropFiles
  \/ FilesInvalid
  \/ FilesReady
  \/ PageSettles
  \/ SetActiveTab
  \/ DeleteLayer
  \/ handleValidationConfirm
  \/ handleReset

SpecRuns == InitRuns /\ [][NextRuns]_vars

(***************************************************************************)
(* Properties.  They are stated on the last call of mergeBoreholes: its    *)
(* argument rawList and its result mergedResults.                          *)
(***************************************************************************)
NameOf(r) == r.header.boreholeName

TrimmedNames(list) == {Trim(NameOf(list[k])) : k \in 1..Len(list)}

\* The positions of the fragments of rawList whose trimmed name is key.
FragmentsOf(key) == {k \in 1..Len(rawList) : Trim(NameOf(rawList[k])) = key}

Interval(l) == <<l.depthFrom, l.depthTo>>

Intervals(ls) == {Interval(ls[k]) : k \in 1..Len(ls)}

Depths(ss) == {ss[k].depth : k \in 1..Len(ss)}

Min(S) == CHOOSE x \in S : \A y \in S : x <= y

\* C1: every record returned by mergeBoreholes has no two layers with the
\* same (depthFrom, depthTo) pair, also when it was built from one fragment
\* or when its later fragments carry no layers.
C1_NoDuplicateIntervals ==
  merged =>
    \A r \in Range(mergedResults) :
      \A a, b \in 1..Len(r.layers) :
        a # b => Interval(r.layers[a]) # Interval(r.layers[b])

\* C2: when two fragments of one trimmed name each hold a layer with the
\* same (depthFrom, depthTo) pair, the merged record holds exactly one layer
\* with that pair, and it is a layer of the earliest fragment of that name
\* that holds the pair, with all of its fields.
C2_EarlierLayerWins ==
  merged =>
    \A r \in Range(mergedResults) :
      LET frs == FragmentsOf(Trim(NameOf(r)))
      IN \A f, g \in frs :
           f < g =>
             \A iv \in Intervals(rawList[f].layers) \cap Intervals(rawList[g].layers) :
               LET first == Min({h \in frs : iv \in Intervals(rawList[h].layers)})
                   hits == {k \in 1..Len(r.layers) : Interval(r.layers[k]) = iv}
               IN /\ Cardinality(hits) = 1
                  /\ \A k \in hits : r.layers[k] \in Range(rawList[first].layers)

\* Two fragments named "A" (one of them padded) collide on an interval with
\* different descriptions, and the record carries the first one's layer.
C2_Witness ==
  /\ merged
  /\ Len(rawList) >= 2
  /\ Trim(NameOf(rawList[1])) = <<"A">>
  /\ Trim(NameOf(rawList[2])) = <<"A">>
  /\ \E la \in Range(rawList[1].layers), lb \in Range(rawList[2].layers) :
       /\ Interval(la) = Interval(lb)
       /\ la.description # lb.description
       /\ \E r \in Range(mergedResults) : la \in Range(r.layers)

\* C3: mergeBoreholes returns exactly one record per distinct non-empty
\* trimmed name of the input: names that differ in padding only share a
\* record, names that differ otherwise (in case only, too) do not.
C3_OneRecordPerTrimmedName ==
  merged =>
    /\ TrimmedNames(mergedResults) = TrimmedNames(rawList) \ {<< >>}
    /\ \A a, b \in 1..Len(mergedResults) :
         a # b => Trim(NameOf(mergedResults[a])) # Trim(NameOf(mergedResults[b]))

\* "A", " A" and "a" arrive: two records.
C3_Witness ==
  /\ merged
  /\ \E f, g, h \in 1..Len(rawList) :
       /\ NameOf(rawList[f]) = <<"A">>
       /\ NameOf(rawList[g]) = <<" ", "A">>
       /\ NameOf(rawList[h]) = <<"a">>
  /\ Len(mergedResults) = 2

\* The fragments of list whose name is not empty after trimming.
Named(list) == SelectIdx(list, {k \in 1..Len(list) : Trim(NameOf(list[k])) # << >>})

\* C4: a fragment whose name is empty or all white space is discarded: the
\* result is the result for the input without such fragments, and no layer
\* or SPT record of such a fragment is in any record.
C4_UnnamedDiscarded ==
  merged =>
    /\ mergedResults = mergeBoreholes(Named(rawList))
    /\ \A f \in Range(rawList) :
         Trim(NameOf(f)) = << >> =>
           \A r \in Range(mergedResults) :
             /\ r.internalId # f.internalId
             /\ Range(r.layers) \cap Range(f.layers) = {}
             /\ Range(r.spt) \cap Range(f.spt) = {}

\* A white-space-named fragment with layers arrives between named ones.
C4_Witness ==
  /\ merged
  /\ Len(rawList) = 3
  /\ Trim(NameOf(rawList[2])) = << >>
  /\ Len(rawList[2].layers) > 0
  /\ Len(mergedResults) >= 1

\* C5: the returned list is sorted by borehole name under the numeric-aware
\* comparison, whatever the arrival order: "2" comes before "10".
C5_SortedByName ==
  merged =>
    /\ \A a, b \in 1..Len(mergedResults) :
         a < b => localeCompare(NameOf(mergedResults[a]), NameOf(mergedResults[b])) <= 0
    /\ \A a, b \in 1..Len(mergedResults) :
         (NameOf(mergedResults[a]) = <<"2">> /\ NameOf(mergedResults[b]) = <<"1", "0">>)
           => a < b

\* "A", "10" and "2" arrive in this order and leave as "2", "10", "A".
C5_Witness ==
  /\ merged
  /\ Len(rawList) = 3
  /\ NameOf(rawList[1]) = <<"A">>
  /\ NameOf(rawList[2]) = <<"1", "0">>
  /\ NameOf(rawList[3]) = <<"2">>
  /\ Len(mergedResults) = 3
  /\ NameOf(mergedResults[1]) = <<"2">>
  /\ NameOf(mergedResults[3]) = <<"A">>

Perms(n) == {p \in [1..n -> 1..n] : \A a, b \in 1..n : a # b => p[a] # p[b]}

Permute(list, p) == [k \in 1..Len(list) |-> list[p[k]]]

\* Per borehole: the trimmed name, the header values other than the name,
\* the layer intervals and the SPT depths.
Boreholes(list) ==
  {[name |-> Trim(NameOf(r)),
    header |-> <<r.header.projectName, r.header.date, r.header.elevation,
                 r.header.coordinates, r.header.client, r.header.waterTable>>,
    intervals |-> Intervals(r.layers),
    depths |-> Depths(r.spt)] : r \in Range(list)}

\* Per borehole: the trimmed name, the layer intervals and the SPT depths.
BoreholeDepths(list) ==
  {[name |-> Trim(NameOf(r)),
    intervals |-> Intervals(r.layers),
    depths |-> Depths(r.spt)] : r \in Range(list)}

\* C6 as stated: every permutation of the fragments yields the same set of
\* boreholes: same names, header values, layer intervals and SPT depths.
C6_OrderIndependent ==
  merged =>
    \A p \in Perms(Len(rawList)) :
      Boreholes(mergeBoreholes(Permute(rawList, p))) = Boreholes(mergedResults)

\* C6 amended: every permutation of the fragments yields the same trimmed
\* names and, per name, the same set of layer intervals and of SPT depths.
C6_SameNamesAndDepths ==
  merged =>
    \A p \in Perms(Len(rawList)) :
      BoreholeDepths(mergeBoreholes(Permute(rawList, p))) = BoreholeDepths(mergedResults)

\* Two fragments of one name with different layers and SPT records, whose
\* merge depends on their order.
C6_Witness ==
  /\ merged
  /\ Len(rawList) >= 2
  /\ Trim(NameOf(rawList[1])) = Trim(NameOf(rawList[2]))
  /\ Intervals(rawList[1].layers) # Intervals(rawList[2].layers)
  /\ Intervals(rawList[1].layers) # {}
  /\ Intervals(rawList[2].layers) # {}
  /\ \E p \in Perms(Len(rawList)) : mergeBoreholes(Permute(rawList, p)) # mergedResults

\* The back-fill as C7 states it: date, elevation, coordinates and
\* waterTable keep a value that is neither empty nor a placeholder and take
\* the incoming value otherwise; projectName and client are not touched.
StatedBackfill(existing, incoming) ==
  [existing EXCEPT
     !.date = IF @ = "" THEN incoming.date ELSE @,
     !.elevation = IF @ = "" \/ @ = "0.00" THEN incoming.elevation ELSE @,
     !.coordinates = IF @ = "" THEN incoming.coordinates ELSE @,
     !.waterTable = IF @ = "" \/ @ = "-" THEN incoming.waterTable ELSE @]

\* The header of the fragments at the positions frs of rawList, merged in
\* arrival order by StatedBackfill.
RECURSIVE StatedHeader(_)
StatedHeader(frs) ==
  LET last == CHOOSE k \in frs : \A h \in frs : h <= k
  IN IF Cardinality(frs) = 1 THEN rawList[last].header
     ELSE StatedBackfill(StatedHeader(frs \ {last}), rawList[last].header)

\* C7: the header of a record is the header of its first fragment with the
\* later fragments back-filled into date, elevation, coordinates and
\* waterTable only.
C7_HeaderBackfill ==
  merged =>
    \A r \in Range(mergedResults) :
      r.header = StatedHeader(FragmentsOf(Trim(NameOf(r))))

\* C8: when the reconciliation of a run yields the empty list, the run
\* reports the hard failure, and neither stores the list nor moves to the
\* validation stage.
C8_EmptyResultIsFailure ==
  (merged /\ mergedResults = << >>) =>
    /\ alertShown = "noData"
    /\ stage # "validation"
    /\ extractedDataList = Null

\* A list of one fragment per trimmed name, none unnamed, in natural order.
Canonical(list) ==
  /\ \A k \in 1..Len(list) : Trim(NameOf(list[k])) # << >>
  /\ \A a, b \in 1..Len(list) :
       a < b => /\ Trim(NameOf(list[a])) # Trim(NameOf(list[b]))
                /\ localeCompare(NameOf(list[a]), NameOf(list[b])) <= 0

\* A canonical list no two names of which compare equal.
StrictlyOrdered(list) ==
  \A a, b \in 1..Len(list) :
    a < b => localeCompare(NameOf(list[a]), NameOf(list[b])) < 0

\* C9 as stated: a canonical input is returned unchanged, records and order,
\* and mergeBoreholes(mergeBoreholes(F)) = mergeBoreholes(F).
C9_CanonicalUnchanged ==
  merged =>
    /\ Canonical(rawList) => mergedResults = rawList
    /\ mergeBoreholes(mergedResults) = mergedResults

\* C9 amended: a canonical input is returned with the same records, each
\* unchanged, and in the same order when no two names compare equal; and
\* mergeBoreholes(mergeBoreholes(F)) = mergeBoreholes(F).
C9_Idempotent ==
  merged =>
    /\ Canonical(rawList) =>
         /\ Range(mergedResults) = Range(rawList)
         /\ Len(mergedResults) = Len(rawList)
         /\ StrictlyOrdered(rawList) => mergedResults = rawList
    /\ mergeBoreholes(mergedResults) = mergedResults

\* A canonical input of three boreholes, one of them with a padded name and
\* layers that are not in depth order, comes back as it was.
C9_Witness ==
  /\ merged
  /\ Len(rawList) = 3
  /\ Canonical(rawList)
  /\ StrictlyOrdered(rawList)
  /\ \E k \in 1..3 :
       /\ NameOf(rawList[k]) # Trim(NameOf(rawList[k]))
       /\ Len(rawList[k].layers) = 2
       /\ rawList[k].layers[1].depthFrom > rawList[k].layers[2].depthFrom
  /\ mergedResults = rawList

\* C10: no borehole of the pipeline is named "?": an extraction result
\* without a name does not reach the reconciliation nor its result.
C10_NoPlaceholderName ==
  /\ \A f \in Range(allExtracted) : NameOf(f) # <<"?">>
  /\ merged => \A r \in Range(mergedResults) : NameOf(r) # <<"?">>

(***************************************************************************)
(* The input of mergeBoreholes, and the loop that collects it.             *)
(***************************************************************************)

\* C11: mergeBoreholes does not modify its input: after the call every
\* fragment of the list it was given has the header field values, the layers
\* and the SPT records it had before the call, also when later fragments of
\* the same name were merged into the record started from it.
C11_InputUnchanged == merged => allExtracted = rawList

\* The list the run has collected: the argument of mergeBoreholes once it
\* has been called.
Collected == IF merged THEN rawList ELSE allExtracted

\* C20: in one run of handleFilesSelect the sources are processed one at a
\* time in the order given; a source whose extraction fails contributes no
\* fragments and does not stop the later sources; the list passed to
\* mergeBoreholes is the concatenation, in source order, of the results of
\* exactly the sources that succeeded.  Step by step: while source i is
\* awaited nothing is collected; when it has settled the list grows at its
\* end by the result of source i, or by nothing when source i failed; the
\* loop then awaits source i + 1, and ends only after the last source,
\* calling mergeBoreholes on the list exactly when the list is not empty.
C20_SourcesInOrder ==
  [][/\ pc = "loop" =>
          /\ pc' = "settled"
          /\ arrayResult'.settled
          /\ i' = i /\ allExtracted' = allExtracted /\ merged' = merged
     /\ pc = "settled" =>
          /\ Collected' = IF arrayResult.ok
                            THEN allExtracted \o arrayResult.value
                            ELSE allExtracted
          /\ (pc' = "loop") = (i + 1 < nSources)
          /\ (pc' = "idle") = (i + 1 = nSources)
          /\ pc' = "loop" => i' = i + 1 /\ nSources' = nSources
          /\ merged' = (pc' = "idle" /\ Collected' # << >>)]_vars

\* The first source of a run failed and did not stop the run: its second
\* source has returned two fragments, which are about to be collected.
C20_Witness ==
  /\ pc = "settled"
  /\ i = 1
  /\ errorCount = 1
  /\ allExtracted = << >>
  /\ arrayResult.ok
  /\ Len(arrayResult.value) = 2

(***************************************************************************)
(* The header handler of ValidationTables.                                 *)
(***************************************************************************)

\* Borehole b is borehole a but for the header field given.
SameBut(a, b, field) ==
  /\ b.layers = a.layers
  /\ b.spt = a.spt
  /\ DOMAIN b = DOMAIN a
  /\ DOMAIN b.header = DOMAIN a.header
  /\ \A g \in DOMAIN a.header \ {field} : b.header[g] = a.header[g]

\* C19: handleHeaderChange on projectName or client sets that field in
\* every borehole of the list held and changes nothing else; on any other
\* header field it changes that field of the active borehole only.
C19_HeaderChangeScope ==
  lastEdit.field # "none" =>
    /\ Len(dataList) = Len(prevDataList)
    /\ \A k \in 1..Len(dataList) :
         IF lastEdit.field \in {"projectName", "client"}
           THEN /\ dataList[k].header[lastEdit.field] = lastEdit.value
                /\ SameBut(prevDataList[k], dataList[k], lastEdit.field)
           ELSE IF k = lastEdit.tab + 1
                  THEN /\ dataList[k].header[lastEdit.field] = lastEdit.value
                       /\ SameBut(prevDataList[k], dataList[k], lastEdit.field)
                  ELSE dataList[k] = prevDataList[k]

\* The project name was typed on the second tab of a list whose first
\* borehole had another project name, and the first borehole has it now.
C19_Witness ==
  /\ lastEdit.field = "projectName"
  /\ lastEdit.tab = 1
  /\ Len(dataList) >= 2
  /\ prevDataList[1].header.projectName # lastEdit.value
  /\ dataList[1].header.projectName = lastEdit.value

(***************************************************************************)
(* SoilProfileChart: what a call does to its data, and what it draws.      *)
(***************************************************************************)
Max(S) == CHOOSE x \in S : \A y \in S : x >= y

\* The surfaces, by the rule of the mode switch, of the list the chart was
\* called with.
Parsed(k) == parseElevation(chartInput[k].header.elevation)

ParsedSet == {Parsed(k) : k \in 1..Len(chartInput)}

TooFewOrTooSpread ==
  Len(chartInput) < 2 \/ Max(ParsedSet) - Min(ParsedSet) > Metres(50)

\* C12: rendering SoilProfileChart leaves every borehole's header, layer
\* sequence and SPT sequence, contents and order, exactly as they were
\* passed in.
C12_DataUnchanged == rendered # "no" => chartData = chartInput

\* C13: the chart is in relative mode exactly when the largest and the
\* smallest parsed header elevation differ by more than 50 or fewer than 2
\* boreholes are given; in relative mode every plotting surface is 0,
\* otherwise each is the borehole's own parsed header elevation; a spread of
\* exactly 50 stays absolute.
C13_ModeSwitch ==
  rendered = "svg" =>
    /\ isRelativeMode(chartInput) = TooFewOrTooSpread
    /\ \A k \in 1..Len(chartInput) :
         plotElevations(chartInput)[k] = IF TooFewOrTooSpread THEN 0 ELSE Parsed(k)
    /\ (Len(chartInput) >= 2 /\ Max(ParsedSet) - Min(ParsedSet) = Metres(50)) =>
         \A k \in 1..Len(chartInput) : plotElevations(chartInput)[k] = Parsed(k)

\* Two boreholes of elevations 10 and 60, a spread of exactly 50, were drawn
\* at their own elevations.
C13_Witness ==
  /\ rendered = "svg"
  /\ Len(chartInput) = 2
  /\ chartInput[1].header.elevation = "10"
  /\ chartInput[2].header.elevation = "60"
  /\ plotElevations(chartInput) = <<Metres(10), Metres(60)>>

\* C14: in relative mode the grid line labelled "-k m" is drawn at the pixel
\* row of a layer boundary or SPT point at depth k below the zero surface,
\* for every k; the surface lies on the line labelled -0m.
C14_GridLabelIsDepth ==
  (rendered = "svg" /\ isRelativeMode(chartInput)) =>
    \A g \in 1..Len(Grid(chartInput)) :
      \A k \in 0..Len(Grid(chartInput)) :
        Grid(chartInput)[g].label = <<"-", k, "m">> =>
          Grid(chartInput)[g].y = getY(chartInput, 0 - Metres(k))

\* The set of the depths plotted for a borehole, and the whole metres next
\* to a number of tenths.
PlottedDepths(bh) ==
  {bh.layers[k].depthTo : k \in 1..Len(bh.layers)}
    \cup {bh.spt[k].depth : k \in 1..Len(bh.spt)} \cup {10}

WholeAtOrAbove(x) == CHOOSE m \in x..(x + 9) : m % 10 = 0

WholeAtOrBelow(x) == CHOOSE m \in (x - 9)..x : m % 10 = 0

\* C15: for a list that is not empty, the maximum plotted depth of a
\* borehole is the largest of its layers' depthTo, its SPT depths and 10;
\* the top elevation is ceil(max plotting surface) + 1; the bottom elevation
\* is floor(min over the boreholes of surface - maximum plotted depth) - 1;
\* the canvas height is (top - bottom) times the pixels of a unit, plus the
\* top and the bottom margin.
C15_Extents ==
  (rendered = "svg" /\ chartInput # << >>) =>
    LET n == Len(chartInput)
        surf == plotElevations(chartInput)
        depth(k) == Max(PlottedDepths(chartInput[k]))
        top == WholeAtOrAbove(Max({surf[k] : k \in 1..n})) + 10
        bottom == WholeAtOrBelow(Min({surf[k] - 10 * depth(k) : k \in 1..n})) - 10
    IN /\ \A k \in 1..n : maxD(chartInput[k]) = depth(k)
       /\ maxAbsElev(chartInput) = top
       /\ minAbsElev(chartInput) = bottom
       /\ 10 * CANVAS_HEIGHT(chartInput) =
            (top - bottom) * PIXELS_PER_METER + 10 * (MARGIN_TOP + MARGIN_BOTTOM)

\* Boreholes at -3.5 with records down to 4 and at 0 with a record at 11 were
\* drawn at their elevations: the top is 1, the bottom -15, the canvas 1440
\* pixels high.
C15_Witness ==
  /\ rendered = "svg"
  /\ Len(chartInput) = 2
  /\ chartInput[1].header.elevation = "-3.5"
  /\ chartInput[2].header.elevation = "0.00"
  /\ Len(chartInput[2].spt) = 1
  /\ maxD(chartInput[1]) = 10
  /\ maxD(chartInput[2]) = 11
  /\ maxAbsElev(chartInput) = Metres(1)
  /\ minAbsElev(chartInput) = 0 - Metres(15)
  /\ CANVAS_HEIGHT(chartInput) = 1440

\* The list without layer k of borehole b.
WithoutLayer(data, b, k) ==
  [data EXCEPT ![b].layers = SelectIdx(@, (1..Len(@)) \ {k})]

\* C16: the rectangle of a layer starts at pixel_y(surface - depthFrom) and
\* is (depthTo - depthFrom) times the pixels of a unit high; a layer with
\* depthFrom = depthTo has height 0, and the rectangles of all the other
\* layers are those drawn when that layer is absent.
C16_LayerRectangles ==
  rendered = "svg" =>
    \A b \in 1..Len(chartInput) :
      LET layers == chartInput[b].layers
          rects == LayerRects(chartInput, b - 1)
          surf == plotElevations(chartInput)[b]
      IN /\ Len(rects) = Len(layers)
         /\ \A k \in 1..Len(layers) :
              /\ rects[k].y = getY(chartInput, surf - Metres(layers[k].depthFrom))
              /\ rects[k].height =
                   (layers[k].depthTo - layers[k].depthFrom) * PIXELS_PER_METER
              /\ layers[k].depthFrom = layers[k].depthTo =>
                   /\ rects[k].height = 0
                   /\ LayerRects(WithoutLayer(chartInput, b, k), b - 1)
                        = SelectIdx(rects, (1..Len(rects)) \ {k})
                   /\ \A c \in (1..Len(chartInput)) \ {b} :
                        LayerRects(WithoutLayer(chartInput, b, k), c - 1)
                          = LayerRects(chartInput, c - 1)

\* A borehole with a layer from 3 to 3 between two other layers was drawn.
C16_Witness ==
  /\ rendered = "svg"
  /\ \E b \in 1..Len(chartInput) :
       /\ Len(chartInput[b].layers) = 3
       /\ chartInput[b].layers[2].depthFrom = chartInput[b].layers[2].depthTo
       /\ LayerRects(chartInput, b - 1)[2].height = 0
       /\ LayerRects(chartInput, b - 1)[3].height = 9 * PIXELS_PER_METER

\* C17: the horizontal offset of an SPT record in the 100-pixel strip is
\* min(value, 50) / 50 * 100: a value of 50 or more is at the right edge, a
\* value from 0 to 50 is inside the strip, and the value stored in the record
\* is not changed by plotting.
C17_SptOffset ==
  rendered = "svg" =>
    \A b \in 1..Len(chartInput) :
      LET points == SptPoints(chartInput, b - 1)
          before == chartInput[b].spt
          after == chartData[b].spt
      IN /\ Len(points) = Len(before)
         /\ \A r \in Range(before) :
              \E p \in Range(points) :
                /\ p.id = r.id
                /\ 50 * (p.x - p.strip) = 100 * Min({r.value, 50})
                /\ r.value >= 50 => p.x - p.strip = 100
                /\ (r.value >= 0 /\ r.value <= 50) =>
                     (p.x - p.strip >= 0 /\ p.x - p.strip <= 100)
         /\ Len(after) = Len(before)
         /\ \A r \in Range(before) :
              \E q \in Range(after) : q.id = r.id /\ q.value = r.value

\* A borehole with values 7 and 60 was drawn: 7 is 14 pixels into the strip,
\* 60 at its right edge, and the record still holds 60.
C17_Witness ==
  /\ rendered = "svg"
  /\ \E b \in 1..Len(chartInput) :
       /\ {r.value : r \in Range(chartInput[b].spt)} = {7, 60}
       /\ {p.x - p.strip : p \in Range(SptPoints(chartInput, b - 1))} = {14, 100}
       /\ {r.value : r \in Range(chartData[b].spt)} = {7, 60}

\* C18: called with zero boreholes, SoilProfileChart reports a failure; it
\* never yields a canvas, degenerate or otherwise.
C18_EmptyListThrows ==
  (chartInput = << >> /\ rendered # "no") => rendered = "TypeError"

\* The component was called with an empty list and threw.
C18_Witness == chartInput = << >> /\ rendered = "TypeError"

(***************************************************************************)
(* callWithRetry.                                                          *)
(***************************************************************************)

\* The errors whose message contains "429", "RESOURCE_EXHAUSTED" or "quota".
QuotaErrors ==
  { WithMessage(<<"E", ":", "4", "2", "9", "!">>),
    WithMessage(<<"R", "E", "S", "O", "U", "R", "C", "E", "_",
                  "E", "X", "H", "A", "U", "S", "T", "E", "D">>),
    WithMessage(<<"n", "o", " ", "q", "u", "o", "t", "a">>) }

\* The times fn has been invoked.
Invocations == Len(attempts) + (IF retryPc = "call" THEN 1 ELSE 0)

RetrySafe ==
  /\ Invocations <= maxRetries
  /\ \A k \in 1..Len(attempts) :
       (k < Invocations \/ retryPc = "wait") =>
         (~attempts[k].ok /\ attempts[k].error \in QuotaErrors)
  /\ \A k \in 1..Len(attempts) :
       (~attempts[k].ok /\ attempts[k].error \notin QuotaErrors) =>
         /\ k = Len(attempts)
         /\ retryPc = "thrown"
         /\ retryResult.error = attempts[k].error
  /\ retryPc = "returned" =>
       /\ attempts[Len(attempts)].ok
       /\ \A k \in 1..(Len(attempts) - 1) : ~attempts[k].ok
       /\ retryResult.ok
       /\ retryResult.value = attempts[Len(attempts)].value
  /\ retryPc = "thrown" =>
       /\ ~attempts[Len(attempts)].ok
       /\ ~retryResult.ok
       /\ retryResult.error = attempts[Len(attempts)].error

\* C21: callWithRetry retries only quota errors and is bounded: fn is
\* invoked again only after an attempt failed with a quota error, fn is
\* never invoked more than maxRetries times, an error of any other kind is
\* propagated right after the attempt that raised it, and the call always
\* ends, returning the first successful result or throwing the last error.
C21_RetryQuotaOnly == [](RetrySafe) /\ <>(retryPc \in {"returned", "thrown"})

\* fn failed twice with quota errors and was invoked a third time, which
\* returned: the call returned that result.
C21_Witness ==
  /\ retryPc = "returned"
  /\ Len(attempts) = maxRetries
  /\ attempts[1].error \in QuotaErrors
  /\ attempts[2].error \in QuotaErrors
  /\ retryResult.value = attempts[3].value

(***************************************************************************)
(* The App with overlapping runs.                                          *)
(***************************************************************************)

\* C22: when the stage is 'result' the borehole list handed to
\* SoilProfileChart is not empty, whatever uploads, validation edits,
\* confirmations and resets came before.
C22_ResultListNotEmpty ==
  (stage = "result" /\ ~extractedDataList.null) =>
    Len(extractedDataList.list) > 0

\* The chart is shown with a borehole while a run is still in its loop.
C22_Witness ==
  /\ stage = "result"
  /\ ~extractedDataList.null
  /\ Len(extractedDataList.list) > 0
  /\ \E run \in BagToSet(runs) : run.pc = "loop"

\* The runs of handleFilesSelect in progress.
RunsInProgress ==
  LET looping == {run \in BagToSet(runs) : run.pc = "loop"}
      count[S \in SUBSET looping] ==
        IF S = {} THEN 0
        ELSE LET run == CHOOSE r \in S : TRUE
             IN CopiesIn(run, runs) + count[S \ {run}]
  IN count[looping]

\* C23: at most one run of handleFilesSelect is in progress at any time:
\* while a run is loading no file selection and no drop starts a second
\* one, so no run that ends later overwrites the list or the stage set by
\* another run or by a reset.
C23_OneRunAtATime == RunsInProgress <= 1

====
